---- MODULE Spec2Model ----
(***************************************************************************)
(* Model of the undo/redo core of the "mind" node graph editor.            *)
(*                                                                         *)
(* HistoryManager (src/src/lib/HistoryManager.ts) keeps an array of graph  *)
(* snapshots and an index into it.  JavaScript objects are references, so  *)
(* the model keeps an explicit heap: a GraphState object holds the node    *)
(* and edge arrays, a node record points to its position object and its    *)
(* data object, and cloneState builds new objects on the heap exactly as   *)
(* the spread expressions of the source do.  The caller of the class (the  *)
(* client) holds the graph it works on and the graph last returned by      *)
(* undo/redo, and may edit every object it can reach in place.             *)
(***************************************************************************)
EXTENDS Integers, Sequences, FiniteSets

VARIABLES
  heap,          \* the objects: a sequence, an object's address is its index
  history,       \* HistoryManager.history: sequence of GraphState addresses
  currentIndex,  \* HistoryManager.currentIndex (0-based, as in the source)
  maxSteps,      \* HistoryManager.maxSteps
  live,          \* the graph the client holds (address of a GraphState)
  ret,           \* what the last undo()/redo() returned (Null or an address)
  retSrc,        \* the index undo()/redo() read the returned entry from
  lastOp,        \* the call made last
  cut,           \* number of entries the last capture sliced off
  recent,        \* values passed to the captures made since the last undo/redo
  undos,         \* number of undo() calls since the last capture/redo
  \* the React hooks useGraphModel / useHistory
  nodes,             \* useNodesState: the rendered node array
  edges,             \* useEdgesState: the rendered edge array
  hookHistory,       \* useHistory: the history state
  historyIndex,      \* useHistory: the historyIndex state
  hookMaxSteps,      \* useHistory: the maxSteps argument
  isRestoringRef,    \* useHistory: isRestoringRef.current
  shouldCaptureRef,  \* useHistory: shouldCaptureRef.current
  queue,             \* state updates requested since the last render
  timers,            \* number of setTimeout callbacks not yet run
  now,               \* Date.now()
  budget,            \* handler calls the run may still make: undo/redo, others
  batch,             \* the handler calls made since the last render
  lastBatch,         \* the handler calls the last render processed
  captured,          \* number of entries the last render's effect appended
  requests,          \* captureSnapshot() calls not yet consumed by the effect
  consumed,          \* requests the last capture consumed
  opBase,            \* the graph before a structural call made and rendered alone
  \* the component App around the hooks
  selectedNode,      \* App: the selectedNode state
  graph,             \* App: which object the last useGraphModel() call returned
  \* the pure functions of GraphOperations
  opArgs,            \* the arguments of the call
  opRet              \* what the call returned

managerVars == <<heap, history, currentIndex, maxSteps, live, ret, retSrc, lastOp,
                 cut, recent, undos>>
hookVars == <<nodes, edges, hookHistory, historyIndex, hookMaxSteps, isRestoringRef,
              shouldCaptureRef, queue, timers, now, budget, batch, lastBatch,
              captured, requests, consumed, opBase, selectedNode, graph>>
opVars == <<opArgs, opRet>>
vars == <<managerVars, hookVars, opVars>>

(***************************************************************************)
(* Bounds of the model.                                                    *)
(***************************************************************************)
MaxM      == 2   \* largest maxSteps a manager is constructed with
MaxMAlias == 1   \* the same for the runs with in-place edits
MaxCalls     == 2   \* handler calls of a run of the hooks, undo/redo apart
MaxCallsLive == 2   \* the same for the runs with fairness
MaxCallsDrag == 3   \* the same for the runs of drags, content updates and undo/redo
MaxOpNodes   == 2   \* longest node array passed to GraphOperations
MaxOpEdges   == 2   \* longest edge array passed to GraphOperations

Null == 0
\* two values of a field, for the edits
Vals == {0, 1}
\* undo and redo calls of a run of the hooks: two undos and two redos, or
\* an undo between two mutations followed by another
MaxRestores == 2
\* the values of maxSteps the hook is used with
HookSteps == {1, 2}
\* the readings of the clock: two calls in the same millisecond, or not
Ticks == {0, 1}
\* the node ids of the arrays passed to GraphOperations
OpIds == {1, 2, 3}
Min(a, b) == IF a < b THEN a ELSE b
Range(s) == {s[i] : i \in DOMAIN s}

(***************************************************************************)
(* Heap objects.  A GraphState object carries two auxiliary fields that    *)
(* the program does not have: born, the value of the graph it was cloned   *)
(* from at the time of the call, and dead, set when the entry lay beyond   *)
(* the index at a capture.                                                 *)
(***************************************************************************)
DataFields == {"title", "color", "description", "label"}

NodeData(v) == [kind |-> "data", title |-> v, color |-> 0, description |-> 0, label |-> v]
Position(v) == [kind |-> "position", x |-> v, y |-> v]
Node(id, p, d) == [kind |-> "node", id |-> id, type |-> "colored", position |-> p, data |-> d]
Edge(id, s, t) == [kind |-> "edge", id |-> id, source |-> s, target |-> t]
GraphState(ns, es) == [kind |-> "state", nodes |-> ns, edges |-> es, born |-> Null, dead |-> FALSE]

\* object creation
Alloc(h, obj) == [heap |-> Append(h, obj), ref |-> Len(h) + 1]

\* objects reachable from a set of GraphState addresses
NodesOf(h, roots) == UNION {Range(h[s].nodes) : s \in roots \ {Null}}
EdgesOf(h, roots) == UNION {Range(h[s].edges) : s \in roots \ {Null}}
DatasOf(h, roots) == {h[n].data : n \in NodesOf(h, roots)}
PositionsOf(h, roots) == {h[n].position : n \in NodesOf(h, roots)}
Reach(h, roots) ==
  (roots \ {Null}) \cup NodesOf(h, roots) \cup EdgesOf(h, roots)
    \cup DatasOf(h, roots) \cup PositionsOf(h, roots)

\* the value of a graph: what a deep comparison (toEqual) sees
NodeValue(h, n) ==
  [id |-> h[n].id, type |-> h[n].type,
   position |-> [x |-> h[h[n].position].x, y |-> h[h[n].position].y],
   data |-> [f \in DataFields |-> h[h[n].data][f]]]
EdgeValue(h, e) == [id |-> h[e].id, source |-> h[e].source, target |-> h[e].target]
Value(h, s) ==
  [nodes |-> [i \in DOMAIN h[s].nodes |-> NodeValue(h, h[s].nodes[i])],
   edges |-> [j \in DOMAIN h[s].edges |-> EdgeValue(h, h[s].edges[j])]]
\* the same without the coordinates held by the position objects
Content(val) ==
  [nodes |-> [i \in DOMAIN val.nodes |->
                [id |-> val.nodes[i].id, type |-> val.nodes[i].type, data |-> val.nodes[i].data]],
   edges |-> val.edges]

(***************************************************************************)
(* Garbage collection.  Objects that neither the manager nor the client    *)
(* can reach are dropped and the others are renumbered in the order a      *)
(* traversal from history[0], history[1], ..., live meets them.  Object    *)
(* identity is kept; the addresses themselves are not observable.          *)
(***************************************************************************)
Visit(order, a) == IF a \in Range(order) THEN order ELSE Append(order, a)

RECURSIVE VisitNodes(_, _, _)
VisitNodes(h, order, ns) ==
  IF ns = <<>>
  THEN order
  ELSE VisitNodes(h, Visit(Visit(Visit(order, ns[1]), h[ns[1]].data), h[ns[1]].position), Tail(ns))

RECURSIVE VisitEdges(_, _)
VisitEdges(order, es) ==
  IF es = <<>> THEN order ELSE VisitEdges(Visit(order, es[1]), Tail(es))

VisitState(h, order, s) ==
  IF s \in Range(order)
  THEN order
  ELSE VisitEdges(VisitNodes(h, Append(order, s), h[s].nodes), h[s].edges)

RECURSIVE VisitAll(_, _, _)
VisitAll(h, order, roots) ==
  IF roots = <<>> THEN order ELSE VisitAll(h, VisitState(h, order, roots[1]), Tail(roots))

IndexOf(order, a) == CHOOSE i \in DOMAIN order : order[i] = a

Moved(order, obj) ==
  IF obj.kind = "state"
  THEN [obj EXCEPT !.nodes = [i \in DOMAIN obj.nodes |-> IndexOf(order, obj.nodes[i])],
                   !.edges = [j \in DOMAIN obj.edges |-> IndexOf(order, obj.edges[j])]]
  ELSE IF obj.kind = "node"
  THEN [obj EXCEPT !.position = IndexOf(order, obj.position), !.data = IndexOf(order, obj.data)]
  ELSE obj

Collect(h, hist, g) ==
  LET order == VisitAll(h, <<>>, Append(hist, g))
  IN [heap |-> [i \in DOMAIN order |-> Moved(order, h[order[i]])],
      history |-> [i \in DOMAIN hist |-> IndexOf(order, hist[i])],
      live |-> IndexOf(order, g)]

(***************************************************************************)
(* HistoryManager.cloneState (HistoryManager.ts:107-112):                  *)
(*   nodes: state.nodes.map(n => ({ ...n, data: { ...n.data } })),         *)
(*   edges: state.edges.map(e => ({ ...e }))                               *)
(* A new GraphState object with new arrays; every node record is copied    *)
(* field by field (so it keeps the pointer to the position object) with a  *)
(* field-by-field copy of its data object; every edge record is copied.    *)
(***************************************************************************)
\* mutant: state.nodes.map(n => ({ ...n })), the data object is not copied
RECURSIVE cloneNodes_sharedData(_, _)
cloneNodes_sharedData(h, ns) ==
  IF ns = <<>>
  THEN [heap |-> h, refs |-> <<>>]
  ELSE LET c == Alloc(h, h[ns[1]])
           rest == cloneNodes_sharedData(c.heap, Tail(ns))
       IN [heap |-> rest.heap, refs |-> <<c.ref>> \o rest.refs]

\* state.nodes.map(n => ({ ...n, data: { ...n.data } }))
RECURSIVE cloneNodes(_, _)
cloneNodes(h, ns) ==
  IF ns = <<>>
  THEN [heap |-> h, refs |-> <<>>]
  ELSE LET n == ns[1]
           d == Alloc(h, h[h[n].data])
           c == Alloc(d.heap, [h[n] EXCEPT !.data = d.ref])
           rest == cloneNodes(c.heap, Tail(ns))
       IN [heap |-> rest.heap, refs |-> <<c.ref>> \o rest.refs]

\* state.edges.map(e => ({ ...e }))
RECURSIVE cloneEdges(_, _)
cloneEdges(h, es) ==
  IF es = <<>>
  THEN [heap |-> h, refs |-> <<>>]
  ELSE LET c == Alloc(h, h[es[1]])
           rest == cloneEdges(c.heap, Tail(es))
       IN [heap |-> rest.heap, refs |-> <<c.ref>> \o rest.refs]

cloneState(h, state) ==
  LET ns == cloneNodes(h, h[state].nodes)
      es == cloneEdges(ns.heap, h[state].edges)
  IN Alloc(es.heap, GraphState(ns.refs, es.refs))

(***************************************************************************)
(* HistoryManager: constructor, capture, undo, redo and the queries.       *)
(* The operators take the fields of the object and the heap, and return    *)
(* the fields they assign; undo and redo also tell which index they read.  *)
(***************************************************************************)
\* mutant: the initial state is pushed onto a log that already holds it
constructor_twoEntries(h, initialState, ms) ==
  LET c == cloneState(h, initialState)
  IN [history |-> <<c.ref, c.ref>>, currentIndex |-> 0, maxSteps |-> ms, heap |-> c.heap]

constructor(h, initialState, ms) ==
  LET c == cloneState(h, initialState)
  IN [history |-> <<c.ref>>, currentIndex |-> 0, maxSteps |-> ms, heap |-> c.heap]

\* Array.prototype.slice(0, end) for end >= 0
slice(s, end) == SubSeq(s, 1, Min(end, Len(s)))

\* mutant: the size is not enforced
capture_noShift(hist, idx, ms, h, state) ==
  LET sliced == slice(hist, idx + 1)
      c == cloneState(h, state)
      pushed == Append(sliced, c.ref)
  IN [history |-> pushed, currentIndex |-> idx + 1, heap |-> c.heap]

\* mutant: the future history is not removed
capture_keepFuture(hist, idx, ms, h, state) ==
  LET c == cloneState(h, state)
      pushed == Append(hist, c.ref)
  IN IF Len(pushed) > ms + 1
     THEN [history |-> Tail(pushed), currentIndex |-> idx, heap |-> c.heap]
     ELSE [history |-> pushed, currentIndex |-> Min(idx + 1, ms), heap |-> c.heap]

\* mutant: pop() instead of shift(), the newest entry is dropped
capture_pop(hist, idx, ms, h, state) ==
  LET sliced == slice(hist, idx + 1)
      c == cloneState(h, state)
      pushed == Append(sliced, c.ref)
  IN IF Len(pushed) > ms + 1
     THEN [history |-> SubSeq(pushed, 1, Len(pushed) - 1), currentIndex |-> idx, heap |-> c.heap]
     ELSE [history |-> pushed, currentIndex |-> Min(idx + 1, ms), heap |-> c.heap]

\* mutant: the size is enforced at maxSteps instead of maxSteps + 1
capture_tightBound(hist, idx, ms, h, state) ==
  LET sliced == slice(hist, idx + 1)
      c == cloneState(h, state)
      pushed == Append(sliced, c.ref)
  IN IF Len(pushed) > ms /\ Len(pushed) > 1
     THEN [history |-> Tail(pushed), currentIndex |-> Len(pushed) - 2, heap |-> c.heap]
     ELSE [history |-> pushed, currentIndex |-> Len(pushed) - 1, heap |-> c.heap]

\* mutant: the index moves up although the oldest entry was dropped
capture_shiftAndAdvance(hist, idx, ms, h, state) ==
  LET sliced == slice(hist, idx + 1)
      c == cloneState(h, state)
      pushed == Append(sliced, c.ref)
  IN IF Len(pushed) > ms + 1
     THEN [history |-> Tail(pushed), currentIndex |-> idx + 1, heap |-> c.heap]
     ELSE [history |-> pushed, currentIndex |-> Min(idx + 1, ms), heap |-> c.heap]

capture(hist, idx, ms, h, state) ==
  LET sliced == slice(hist, idx + 1)
      c == cloneState(h, state)
      pushed == Append(sliced, c.ref)
  IN IF Len(pushed) > ms + 1
     THEN [history |-> Tail(pushed), currentIndex |-> idx, heap |-> c.heap]
     ELSE [history |-> pushed, currentIndex |-> Min(idx + 1, ms), heap |-> c.heap]

\* mutant: the entry is read before the index is decremented
undo_staleEntry(hist, idx, h) ==
  IF idx <= 0
  THEN [currentIndex |-> idx, heap |-> h, ret |-> Null, src |-> Null]
  ELSE LET c == cloneState(h, hist[idx + 1])
       IN [currentIndex |-> idx - 1, heap |-> c.heap, ret |-> c.ref, src |-> idx]

undo(hist, idx, h) ==
  IF idx <= 0
  THEN [currentIndex |-> idx, heap |-> h, ret |-> Null, src |-> Null]
  ELSE LET c == cloneState(h, hist[(idx - 1) + 1])
       IN [currentIndex |-> idx - 1, heap |-> c.heap, ret |-> c.ref, src |-> idx - 1]

\* mutant: redo jumps to the last entry
redo_toEnd(hist, idx, h) ==
  IF idx >= Len(hist) - 1
  THEN [currentIndex |-> idx, heap |-> h, ret |-> Null, src |-> Null]
  ELSE LET c == cloneState(h, hist[Len(hist)])
       IN [currentIndex |-> Len(hist) - 1, heap |-> c.heap, ret |-> c.ref, src |-> Len(hist) - 1]

redo(hist, idx, h) ==
  IF idx >= Len(hist) - 1
  THEN [currentIndex |-> idx, heap |-> h, ret |-> Null, src |-> Null]
  ELSE LET c == cloneState(h, hist[(idx + 1) + 1])
       IN [currentIndex |-> idx + 1, heap |-> c.heap, ret |-> c.ref, src |-> idx + 1]

\* mutant: >= instead of >
canUndo_atZero(idx) == idx >= 0
canUndo(idx) == idx > 0
canRedo(hist, idx) == idx < Len(hist) - 1
length(hist) == Len(hist)
getCurrentIndex(idx) == idx

(***************************************************************************)
(* The client.  It builds graphs, passes the graph it holds to capture,    *)
(* goes on with the graph undo/redo hands back, and may edit the objects   *)
(* of its graph in place.                                                  *)
(***************************************************************************)
\* a graph literal: nn nodes with ids 1..nn, ne edges 1 -> nn, fields set to v
RECURSIVE NewNodes(_, _, _)
NewNodes(h, i, v) ==
  IF i = 0
  THEN [heap |-> h, refs |-> <<>>]
  ELSE LET rest == NewNodes(h, i - 1, v)
           p == Alloc(rest.heap, Position(v))
           d == Alloc(p.heap, NodeData(v))
           n == Alloc(d.heap, Node(i, p.ref, d.ref))
       IN [heap |-> n.heap, refs |-> Append(rest.refs, n.ref)]

RECURSIVE NewEdges(_, _, _)
NewEdges(h, j, nn) ==
  IF j = 0
  THEN [heap |-> h, refs |-> <<>>]
  ELSE LET rest == NewEdges(h, j - 1, nn)
           e == Alloc(rest.heap, Edge(j, 1, nn))
       IN [heap |-> e.heap, refs |-> Append(rest.refs, e.ref)]

NewGraph(h, nn, ne, v) ==
  LET ns == NewNodes(h, nn, v)
      es == NewEdges(ns.heap, ne, nn)
  IN Alloc(es.heap, GraphState(ns.refs, es.refs))

\* the graphs the client builds, as <<nodes, edges>>: the empty graph, one
\* node, and two nodes with an edge
Shapes == {<<0, 0>>, <<1, 0>>, <<2, 1>>}
\* the graphs the client that edits in place starts from
AliasShapes == {<<0, 0>>, <<1, 0>>, <<1, 1>>}

\* the last k elements of a sequence (all of it when it is shorter)
LastK(s, k) == IF Len(s) <= k THEN s ELSE SubSeq(s, Len(s) - k + 1, Len(s))

\* new HistoryManager(live, ms) on a graph the client has just built, with
\* maxSteps negative, zero or positive
Construct(msMax, shapes) ==
  \E ms \in (0 - 1)..msMax, sh \in shapes :
    LET g == NewGraph(<<>>, sh[1], sh[2], 0)
        m == constructor(g.heap, g.ref, ms)
        e == m.history[1]
        c == Collect([m.heap EXCEPT ![e].born = Value(g.heap, g.ref)], m.history, g.ref)
    IN /\ heap = c.heap
       /\ history = c.history
       /\ live = c.live
       /\ currentIndex = m.currentIndex
       /\ maxSteps = m.maxSteps
       /\ ret = Null
       /\ retSrc = Null
       /\ lastOp = "constructor"
       /\ cut = 0
       /\ recent = <<>>
       /\ undos = 0

\* history.capture(live); recent is kept only when track is set
Capture(track) ==
  LET r == capture(history, currentIndex, maxSteps, heap, live)
      beyond == {history[j] : j \in (currentIndex + 2)..Len(history)}
      new == r.history[Len(r.history)]
      val == Value(heap, live)
      h2 == [a \in DOMAIN r.heap |->
               IF a = new THEN [r.heap[a] EXCEPT !.born = val]
               ELSE IF a \in beyond THEN [r.heap[a] EXCEPT !.dead = TRUE]
               ELSE r.heap[a]]
      c == Collect(h2, r.history, live)
  IN /\ heap' = c.heap
     /\ history' = c.history
     /\ live' = c.live
     /\ currentIndex' = r.currentIndex
     /\ cut' = Cardinality(beyond)
     /\ recent' = IF track THEN LastK(Append(IF undos > 0 THEN <<>> ELSE recent, val), maxSteps + 1) ELSE <<>>
     /\ undos' = 0
     /\ ret' = Null
     /\ retSrc' = Null
     /\ lastOp' = "capture"
     /\ UNCHANGED maxSteps

\* const previous = history.undo(); the client goes on with the graph returned
Undo ==
  LET r == undo(history, currentIndex, heap)
      c == Collect(r.heap, history, IF r.ret = Null THEN live ELSE r.ret)
  IN /\ heap' = c.heap
     /\ history' = c.history
     /\ live' = c.live
     /\ ret' = IF r.ret = Null THEN Null ELSE c.live
     /\ retSrc' = r.src
     /\ currentIndex' = r.currentIndex
     /\ undos' = IF maxSteps < 0 THEN 1 ELSE Min(undos + 1, maxSteps + 1)
     /\ lastOp' = "undo"
     /\ UNCHANGED <<maxSteps, cut, recent>>

\* const next = history.redo(); the client goes on with the graph returned
Redo ==
  LET r == redo(history, currentIndex, heap)
      c == Collect(r.heap, history, IF r.ret = Null THEN live ELSE r.ret)
  IN /\ heap' = c.heap
     /\ history' = c.history
     /\ live' = c.live
     /\ ret' = IF r.ret = Null THEN Null ELSE c.live
     /\ retSrc' = r.src
     /\ currentIndex' = r.currentIndex
     /\ recent' = <<>>
     /\ undos' = 0
     /\ lastOp' = "redo"
     /\ UNCHANGED <<maxSteps, cut>>

\* the client replaces the graph it holds by a new one
ClientNew(nn, ne, v) ==
  LET g == NewGraph(heap, nn, ne, v)
      c == Collect(g.heap, history, g.ref)
  IN /\ heap' = c.heap
     /\ history' = c.history
     /\ live' = c.live
     /\ ret' = Null
     /\ retSrc' = Null
     /\ lastOp' = "new"
     /\ UNCHANGED <<currentIndex, maxSteps, cut, recent, undos>>

Replace == \E sh \in Shapes : ClientNew(sh[1], sh[2], 0)

\* in-place edits of the objects the client can reach
Edit(a, f, v) ==
  /\ heap[a][f] # v
  /\ heap' = [heap EXCEPT ![a][f] = v]
  /\ lastOp' = "edit"
  /\ UNCHANGED <<history, currentIndex, maxSteps, live, ret, retSrc, cut, recent, undos>>

\* live.nodes[i].data.title = v
EditData == \E a \in DatasOf(heap, {live}), v \in Vals : Edit(a, "title", v)
\* live.nodes[i].position.x = v
EditPosition == \E a \in PositionsOf(heap, {live}), v \in Vals : Edit(a, "x", v)

\* opBase follows one scenario: a structural call made alone and rendered
\* (stage 1, with the graph before it), then an undo call made alone and,
\* when it requested updates, rendered (stage 2)
NoBase == [stage |-> 0, nodes |-> <<>>, edges |-> <<>>]

\* useState<SelectedNode | null>(null) (App.tsx:19)
NoSelection == [id |-> Null, data |-> [title |-> <<>>, color |-> "", description |-> <<>>]]

\* no hook mounted
HookOff ==
  /\ nodes = <<>>
  /\ edges = <<>>
  /\ hookHistory = <<>>
  /\ historyIndex = 0
  /\ hookMaxSteps = 0
  /\ isRestoringRef = FALSE
  /\ shouldCaptureRef = FALSE
  /\ queue = <<>>
  /\ timers = 0
  /\ now = 0
  /\ budget = [calls |-> 0, restores |-> 0]
  /\ batch = <<>>
  /\ lastBatch = <<>>
  /\ captured = 0
  /\ requests = 0
  /\ consumed = 0
  /\ opBase = NoBase
  /\ selectedNode = NoSelection
  /\ graph = 0

\* no HistoryManager constructed
ManagerOff ==
  /\ heap = <<>>
  /\ history = <<>>
  /\ currentIndex = 0
  /\ maxSteps = 0
  /\ live = Null
  /\ ret = Null
  /\ retSrc = Null
  /\ lastOp = "none"
  /\ cut = 0
  /\ recent = <<>>
  /\ undos = 0

\* no GraphOperations call
OpsOff ==
  /\ opArgs = <<>>
  /\ opRet = <<>>

\* A client that never edits an object in place: it replaces its graph.
Init == Construct(MaxM, Shapes) /\ HookOff /\ OpsOff

Next ==
  \/ Capture(TRUE) /\ UNCHANGED <<hookVars, opVars>>
  \/ Undo /\ UNCHANGED <<hookVars, opVars>>
  \/ Redo /\ UNCHANGED <<hookVars, opVars>>
  \/ Replace /\ UNCHANGED <<hookVars, opVars>>

Spec == Init /\ [][Next]_vars

\* A client that edits the objects of its graph in place instead.
InitAlias == Construct(MaxMAlias, AliasShapes) /\ HookOff /\ OpsOff

NextAlias ==
  \/ Capture(FALSE) /\ UNCHANGED <<hookVars, opVars>>
  \/ Undo /\ UNCHANGED <<hookVars, opVars>>
  \/ Redo /\ UNCHANGED <<hookVars, opVars>>
  \/ EditData /\ UNCHANGED <<hookVars, opVars>>
  \/ EditPosition /\ UNCHANGED <<hookVars, opVars>>

SpecAlias == InitAlias /\ [][NextAlias]_vars

(***************************************************************************)
(* The React integration layer: useGraphModel (hooks/useGraphModel.ts) on  *)
(* top of useHistory (hooks/useHistory.ts).  A handler call reads the      *)
(* state of the last render (its closure), sets refs at once and requests  *)
(* state updates, which are queued; the next render applies the queue and  *)
(* then runs the capture effect with the new state.  The callback that     *)
(* undo/redo pass to setTimeout runs in a later task.  The model keeps     *)
(* arrays as values: the layer replaces arrays and node records and never  *)
(* edits one in place.  A text is a sequence of pieces, so that appending  *)
(* a suffix is concatenation.                                              *)
(***************************************************************************)
\* label of updateNodeData (useGraphModel.ts:194)
LabelOf(title, description) ==
  title \o (IF Len(description) > 0 THEN <<"(...)">> ELSE <<>>)

HookNode(id, title, color, description, label) ==
  [id |-> id, type |-> "colored",
   data |-> [title |-> title, color |-> color, description |-> description, label |-> label]]
HookEdge(s, t) == [id |-> <<s, t>>, source |-> s, target |-> t]

initialNodes ==
  << HookNode(1, <<"Welcome">>, "blue", <<"text">>, <<"Welcome">>),
     HookNode(2, <<"Ideas">>, "green", <<"text">>, <<"Ideas">>),
     HookNode(3, <<"Tasks">>, "amber", <<"text">>, <<"Tasks">>) >>
initialEdges == << HookEdge(1, 2), HookEdge(1, 3) >>

\* `node-${Date.now()}`: the ids 1..3 are those of the initial nodes
NodeIdOf(t) == 4 + t

\* the contents the editing panel passes to updateNodeData
Contents ==
  { [title |-> <<"Updated">>, color |-> "red", description |-> <<"text">>] }

Ids(ns) == {ns[i].id : i \in DOMAIN ns}

Update(op, arg) == [op |-> op, arg |-> arg]

\* one queued update applied to the node array / the edge array / the index
applyToNodes(ns, u) ==
  CASE u.op = "appendNode" -> Append(ns, u.arg)
    [] u.op = "filterNodes" -> SelectSeq(ns, LAMBDA n : n.id # u.arg)
    [] u.op = "mapNodes" ->
         [i \in DOMAIN ns |->
            IF ns[i].id = u.arg.id
            THEN [ns[i] EXCEPT !.data =
                    [title |-> u.arg.data.title, color |-> u.arg.data.color,
                     description |-> u.arg.data.description,
                     label |-> LabelOf(u.arg.data.title, u.arg.data.description)]]
            ELSE ns[i]]
    [] u.op = "setNodes" -> u.arg
    [] OTHER -> ns
\* edge updates in which deleteNode's filter keeps every edge
applyToEdges_keepEdges(es, u) ==
  CASE u.op = "addEdge" -> Append(es, HookEdge(u.arg[1], u.arg[2]))
    [] u.op = "setEdges" -> u.arg
    [] OTHER -> es

applyToEdges(es, u) ==
  CASE u.op = "addEdge" -> Append(es, HookEdge(u.arg[1], u.arg[2]))
    [] u.op = "filterEdges" -> SelectSeq(es, LAMBDA e : e.source # u.arg /\ e.target # u.arg)
    [] u.op = "setEdges" -> u.arg
    [] OTHER -> es
applyToIndex(i, u) == IF u.op = "setHistoryIndex" THEN u.arg ELSE i

RECURSIVE applyQueue(_, _, _, _)
applyQueue(ns, es, i, q) ==
  IF q = <<>> THEN [nodes |-> ns, edges |-> es, historyIndex |-> i]
  ELSE applyQueue(applyToNodes(ns, Head(q)), applyToEdges(es, Head(q)),
                  applyToIndex(i, Head(q)), Tail(q))

\* the state the next render will show
Pending == applyQueue(nodes, edges, historyIndex, queue)

(***************************************************************************)
(* useHistory's capture effect (useHistory.ts:48-67), run after a render   *)
(* that shows nodes ns, edges es and index idx.  Its two state updates     *)
(* are applied by the render that follows at once; the effect of that      *)
(* render finds the request flag reset and does nothing.                   *)
(***************************************************************************)
\* effect without the isRestoringRef guard
captureEffect_noRestoreGuard(hist, idx, ms, restoring, should, ns, es) ==
  IF ~should
  THEN [history |-> hist, historyIndex |-> idx, shouldCapture |-> should, captured |-> 0]
  ELSE LET newHistory == Append(slice(hist, idx + 1), [nodes |-> ns, edges |-> es])
       IN [history |-> IF Len(newHistory) > ms + 1 THEN Tail(newHistory) ELSE newHistory,
           historyIndex |-> Min(idx + 1, ms), shouldCapture |-> FALSE, captured |-> 1]

\* effect without the shouldCaptureRef guard
captureEffect_noRequestGuard(hist, idx, ms, restoring, should, ns, es) ==
  IF restoring
  THEN [history |-> hist, historyIndex |-> idx, shouldCapture |-> should, captured |-> 0]
  ELSE LET newHistory == Append(slice(hist, idx + 1), [nodes |-> ns, edges |-> es])
       IN [history |-> IF Len(newHistory) > ms + 1 THEN Tail(newHistory) ELSE newHistory,
           historyIndex |-> Min(idx + 1, ms), shouldCapture |-> FALSE, captured |-> 1]

\* effect that leaves the request flag set
captureEffect_keepFlag(hist, idx, ms, restoring, should, ns, es) ==
  IF restoring \/ ~should
  THEN [history |-> hist, historyIndex |-> idx, shouldCapture |-> should, captured |-> 0]
  ELSE LET newHistory == Append(slice(hist, idx + 1), [nodes |-> ns, edges |-> es])
       IN [history |-> IF Len(newHistory) > ms + 1 THEN Tail(newHistory) ELSE newHistory,
           historyIndex |-> Min(idx + 1, ms), shouldCapture |-> TRUE, captured |-> 1]

captureEffect(hist, idx, ms, restoring, should, ns, es) ==
  IF restoring
  THEN [history |-> hist, historyIndex |-> idx, shouldCapture |-> should, captured |-> 0]
  ELSE IF ~should
  THEN [history |-> hist, historyIndex |-> idx, shouldCapture |-> should, captured |-> 0]
  ELSE LET newHistory == Append(slice(hist, idx + 1), [nodes |-> ns, edges |-> es])
       IN [history |-> IF Len(newHistory) > ms + 1 THEN Tail(newHistory) ELSE newHistory,
           historyIndex |-> Min(idx + 1, ms), shouldCapture |-> FALSE, captured |-> 1]

\* the calls that change the set of nodes or edges
Structural == {"createNode", "duplicateNode", "deleteNode", "onConnect"}

\* what every handler call does to the bookkeeping of the run
Call(name) ==
  /\ IF name \in {"undo", "redo"}
     THEN /\ budget.restores > 0
          /\ budget' = [budget EXCEPT !.restores = @ - 1]
     ELSE /\ budget.calls > 0
          /\ budget' = [budget EXCEPT !.calls = @ - 1]
  /\ batch' = Append(batch, name)
  /\ opBase' = IF name = "undo" /\ opBase.stage = 1 /\ batch = <<>>
               THEN IF historyIndex > 0 THEN opBase ELSE [opBase EXCEPT !.stage = 2]
               ELSE NoBase
  /\ UNCHANGED <<nodes, edges, hookHistory, historyIndex, hookMaxSteps,
                 lastBatch, captured, consumed, selectedNode, graph>>

\* Date.now() read by a handler: the clock has not gone back since the last
\* reading
Clock == {t \in Ticks : t >= now}

\* captureSnapshot() (useHistory.ts:70-72)
Request ==
  /\ shouldCaptureRef' = TRUE
  /\ requests' = requests + 1

\* useGraphModel.createNode (useGraphModel.ts:131-151)
CreateNode(t) ==
  /\ Call("createNode")
  /\ now' = t
  /\ queue' = Append(queue, Update("appendNode",
                 HookNode(NodeIdOf(t), <<"New Node">>, "purple", <<>>, <<"New Node">>)))
  /\ Request
  /\ UNCHANGED <<isRestoringRef, timers>>

\* an id that no node has
AbsentIds == {0}
\* the name under which a duplicateNode call that returned null is recorded
ReturnedNull == "duplicateNode: null"

\* useGraphModel.duplicateNode (useGraphModel.ts:154-176); the node is looked
\* up in the nodes of the last render
DuplicateNode(nodeId, t) ==
  /\ IF nodeId \in Ids(nodes)
     THEN LET nodeToDuplicate == nodes[CHOOSE i \in DOMAIN nodes :
                                        /\ nodes[i].id = nodeId
                                        /\ \A j \in 1..(i - 1) : nodes[j].id # nodeId]
              title == nodeToDuplicate.data.title \o <<" (Copy)">>
          IN /\ Call("duplicateNode")
             /\ now' = t
             /\ queue' = Append(queue, Update("appendNode",
                            HookNode(NodeIdOf(t), title, nodeToDuplicate.data.color,
                                     nodeToDuplicate.data.description, title)))
             /\ Request
     ELSE /\ Call(ReturnedNull)
          /\ UNCHANGED <<queue, shouldCaptureRef, requests, now>>
  /\ UNCHANGED <<isRestoringRef, timers>>

\* useGraphModel.deleteNode (useGraphModel.ts:179-183)
DeleteNode(nodeId) ==
  /\ Call("deleteNode")
  /\ queue' = queue \o <<Update("filterNodes", nodeId), Update("filterEdges", nodeId)>>
  /\ Request
  /\ UNCHANGED <<isRestoringRef, timers, now>>

\* useGraphModel.onConnect (useGraphModel.ts:120-123) with a connection that
\* the graph does not have yet
OnConnect(s, t) ==
  /\ Call("onConnect")
  /\ queue' = Append(queue, Update("addEdge", <<s, t>>))
  /\ Request
  /\ UNCHANGED <<isRestoringRef, timers, now>>

\* useGraphModel.onNodeDragStop (useGraphModel.ts:126-128) and a direct call
\* of captureSnapshot
OnNodeDragStop ==
  /\ Call("captureSnapshot")
  /\ Request
  /\ UNCHANGED <<queue, isRestoringRef, timers, now>>

\* useGraphModel.updateNodeData (useGraphModel.ts:186-200)
UpdateNodeData(nodeId, data) ==
  /\ Call("updateNodeData")
  /\ queue' = Append(queue, Update("mapNodes", [id |-> nodeId, data |-> data]))
  /\ UNCHANGED <<shouldCaptureRef, requests, isRestoringRef, timers, now>>

\* useHistory.undo (useHistory.ts:75-93) called with the historyIndex and the
\* history of the last render
hookUndo(idx, hist) ==
  IF idx > 0 /\ Len(hist) > 0
  THEN LET newIndex == idx - 1
       IN IF newIndex + 1 \notin DOMAIN hist
          THEN [restore |-> FALSE, updates |-> <<>>]
          ELSE [restore |-> TRUE,
                updates |-> <<Update("setNodes", hist[newIndex + 1].nodes),
                              Update("setEdges", hist[newIndex + 1].edges),
                              Update("setHistoryIndex", newIndex)>>]
  ELSE [restore |-> FALSE, updates |-> <<>>]

\* useHistory.redo (useHistory.ts:96-114)
hookRedo(idx, hist) ==
  IF idx < Len(hist) - 1 /\ Len(hist) > 0
  THEN LET newIndex == idx + 1
       IN IF newIndex + 1 \notin DOMAIN hist
          THEN [restore |-> FALSE, updates |-> <<>>]
          ELSE [restore |-> TRUE,
                updates |-> <<Update("setNodes", hist[newIndex + 1].nodes),
                              Update("setEdges", hist[newIndex + 1].edges),
                              Update("setHistoryIndex", newIndex)>>]
  ELSE [restore |-> FALSE, updates |-> <<>>]

Restore(name, r) ==
  /\ Call(name)
  /\ queue' = queue \o r.updates
  /\ isRestoringRef' = (isRestoringRef \/ r.restore)
  /\ timers' = IF r.restore THEN timers + 1 ELSE timers
  /\ UNCHANGED <<shouldCaptureRef, requests, now>>

HookUndo == Restore("undo", hookUndo(historyIndex, hookHistory))
HookRedo == Restore("redo", hookRedo(historyIndex, hookHistory))

\* the callback of setTimeout(..., 0) (useHistory.ts:89-91, 110-112): a task
\* of its own, after the render of the task that called undo/redo
Timer ==
  /\ timers > 0
  /\ queue = <<>>
  /\ timers' = timers - 1
  /\ isRestoringRef' = FALSE
  /\ UNCHANGED <<nodes, edges, hookHistory, historyIndex, hookMaxSteps, shouldCaptureRef,
                 queue, now, budget, batch, lastBatch, captured, requests, consumed,
                 opBase, selectedNode, graph>>
  /\ UNCHANGED <<managerVars, opVars>>

\* render that runs the capture effect on the state before the updates
Render_captureFirst ==
  /\ queue # <<>>
  /\ LET p == Pending
         e == captureEffect(hookHistory, historyIndex, hookMaxSteps, isRestoringRef,
                            shouldCaptureRef, nodes, edges)
     IN /\ nodes' = p.nodes
        /\ edges' = p.edges
        /\ hookHistory' = e.history
        /\ historyIndex' = IF e.captured = 1 THEN e.historyIndex ELSE p.historyIndex
        /\ shouldCaptureRef' = e.shouldCapture
        /\ captured' = e.captured
        /\ consumed' = IF e.captured = 1 THEN requests ELSE 0
        /\ requests' = IF e.captured = 1 THEN 0 ELSE requests
  /\ queue' = <<>>
  /\ batch' = <<>>
  /\ lastBatch' = batch
  /\ opBase' = IF Len(batch) = 1 /\ batch[1] \in Structural
               THEN [stage |-> 1, nodes |-> nodes, edges |-> edges]
               ELSE IF batch = <<"undo">> /\ opBase.stage = 1
               THEN [opBase EXCEPT !.stage = 2]
               ELSE NoBase
  /\ UNCHANGED <<hookMaxSteps, isRestoringRef, timers, now, budget, selectedNode, graph>>
  /\ UNCHANGED <<managerVars, opVars>>

\* A render: the queued updates are applied in order, then the capture
\* effect runs with the nodes, edges and historyIndex of this render (its
\* dependencies changed, since every queued update makes a new array or a
\* new index), then its own updates are rendered.
Render ==
  /\ queue # <<>>
  /\ LET p == Pending
         e == captureEffect(hookHistory, p.historyIndex, hookMaxSteps, isRestoringRef,
                            shouldCaptureRef, p.nodes, p.edges)
     IN /\ nodes' = p.nodes
        /\ edges' = p.edges
        /\ hookHistory' = e.history
        /\ historyIndex' = e.historyIndex
        /\ shouldCaptureRef' = e.shouldCapture
        /\ captured' = e.captured
        /\ consumed' = IF e.captured = 1 THEN requests ELSE 0
        /\ requests' = IF e.captured = 1 THEN 0 ELSE requests
  /\ queue' = <<>>
  /\ batch' = <<>>
  /\ lastBatch' = batch
  /\ opBase' = IF Len(batch) = 1 /\ batch[1] \in Structural
               THEN [stage |-> 1, nodes |-> nodes, edges |-> edges]
               ELSE IF batch = <<"undo">> /\ opBase.stage = 1
               THEN [opBase EXCEPT !.stage = 2]
               ELSE NoBase
  /\ UNCHANGED <<hookMaxSteps, isRestoringRef, timers, now, budget, selectedNode, graph>>
  /\ UNCHANGED <<managerVars, opVars>>

\* the arguments the run passes to the handlers: the id of the first node of
\* the last render (result.current.nodes[0].id), the id of the node added
\* last, and connections from the first node to a node of the pending graph
\* that the graph does not have yet
FirstId == {nodes[i].id : i \in DOMAIN nodes \cap {1}}
LastId == LET p == Pending IN {p.nodes[i].id : i \in DOMAIN p.nodes \cap {Len(p.nodes)}}
NewConnections ==
  LET p == Pending
  IN {c \in (FirstId \cap Ids(p.nodes)) \X Ids(p.nodes) :
        /\ c[1] # c[2]
        /\ \A i \in DOMAIN p.edges : ~(p.edges[i].source = c[1] /\ p.edges[i].target = c[2])}

\* useGraphModel() mounted: the first render, whose effect finds no request
HookMountWith(calls, steps) ==
  /\ nodes = initialNodes
  /\ edges = initialEdges
  /\ hookHistory = <<[nodes |-> initialNodes, edges |-> initialEdges]>>
  /\ historyIndex = 0
  /\ hookMaxSteps \in steps
  /\ isRestoringRef = FALSE
  /\ shouldCaptureRef = FALSE
  /\ queue = <<>>
  /\ timers = 0
  /\ now = 0
  /\ budget = [calls |-> calls, restores |-> MaxRestores]
  /\ batch = <<>>
  /\ lastBatch = <<>>
  /\ captured = 0
  /\ requests = 0
  /\ consumed = 0
  /\ opBase = NoBase
  /\ selectedNode = NoSelection
  /\ graph = 0
HookMount(calls) == HookMountWith(calls, HookSteps)

InitHook == HookMount(MaxCalls) /\ ManagerOff /\ OpsOff

\* a handler call of a run that has the hooks alone
HooksOnly == UNCHANGED <<managerVars, opVars>>

NextHook ==
  \/ (\E t \in Clock : CreateNode(t)) /\ HooksOnly
  \/ (\E id \in FirstId \cup AbsentIds, t \in Clock : DuplicateNode(id, t)) /\ HooksOnly
  \/ (\E id \in FirstId \cup LastId : DeleteNode(id)) /\ HooksOnly
  \/ (\E c \in NewConnections : OnConnect(c[1], c[2])) /\ HooksOnly
  \/ OnNodeDragStop /\ HooksOnly
  \/ (\E id \in FirstId, data \in Contents : UpdateNodeData(id, data)) /\ HooksOnly
  \/ HookUndo /\ HooksOnly
  \/ HookRedo /\ HooksOnly
  \/ Render
  \/ Timer

SpecHook == InitHook /\ [][NextHook]_vars

\* A run is either one of a HistoryManager or one of the hooks.
InitAll == Init \/ InitHook
NextAll ==
  \/ history # <<>> /\ Next
  \/ NextHook
SpecAll == InitAll /\ [][NextAll]_vars

\* The same with the scheduling of the runtime: a requested render happens,
\* and a timer callback runs.
InitHookLive == HookMount(MaxCallsLive) /\ ManagerOff /\ OpsOff
SpecHookLive == InitHookLive /\ [][NextHook]_vars /\ WF_vars(Render) /\ WF_vars(Timer)

\* Runs in which the user adds nodes, ends drags, edits the content of the
\* first node and goes back and forth in the history: one call more than in
\* the runs above, of fewer handlers.
InitDrag == HookMount(MaxCallsDrag) /\ ManagerOff /\ OpsOff
NextDrag ==
  \/ (\E t \in Clock : CreateNode(t)) /\ HooksOnly
  \/ OnNodeDragStop /\ HooksOnly
  \/ (\E id \in FirstId, data \in Contents : UpdateNodeData(id, data)) /\ HooksOnly
  \/ HookUndo /\ HooksOnly
  \/ HookRedo /\ HooksOnly
  \/ Render
  \/ Timer
SpecDrag == InitDrag /\ [][NextDrag]_vars

\* what useHistory returns as canUndo and canRedo (useHistory.ts:119-120)
hookCanUndo(idx) == idx > 0
hookCanRedo(idx, hist) == idx < Len(hist) - 1

\* The hooks next to a HistoryManager with the same maxSteps that is given
\* the same calls: capture for a handler that changes the graph and requests
\* a capture, undo, redo.  A handler is called when the calls before it have
\* been rendered, so that a call that requests a capture is a request
\* followed by the change it makes, observed by a render of its own.
WrapperSteps == {0, 1, 2}
InitWrapper ==
  /\ HookMountWith(MaxCallsDrag, WrapperSteps)
  /\ Construct(MaxM, {<<0, 0>>})
  /\ maxSteps = hookMaxSteps
  /\ OpsOff
NextWrapper ==
  \/ queue = <<>> /\ (\E t \in Clock : CreateNode(t)) /\ Capture(FALSE) /\ UNCHANGED opVars
  \/ queue = <<>> /\ (\E id \in FirstId \cup LastId : DeleteNode(id)) /\ Capture(FALSE)
       /\ UNCHANGED opVars
  \/ queue = <<>> /\ HookUndo /\ Undo /\ UNCHANGED opVars
  \/ queue = <<>> /\ HookRedo /\ Redo /\ UNCHANGED opVars
  \/ Render
  \/ Timer
SpecWrapper == InitWrapper /\ [][NextWrapper]_vars

(***************************************************************************)
(* The component App (src/src/App.tsx) around useGraphModel.  It keeps the *)
(* node shown in the editing panel in the state selectedNode (id and       *)
(* content) and has one effect, with dependencies [selectedNode, graph],   *)
(* that passes the held content to graph.updateNodeData.  graph is the     *)
(* object literal that useGraphModel() returns (useGraphModel.ts:202-225): *)
(* every render builds a new one, so the dependencies differ after every   *)
(* render and the effect runs after every render.  The variable graph      *)
(* tells the objects of two consecutive renders apart.  The state updates  *)
(* of selectedNode are queued with those of the hooks and applied by the   *)
(* same render.                                                            *)
(***************************************************************************)
\* one queued update applied to selectedNode
applyToSelected(sel, u) ==
  CASE u.op = "setSelectedNode" -> u.arg
    [] u.op = "setSelectedData" ->
         IF sel = NoSelection THEN NoSelection ELSE [sel EXCEPT !.data = u.arg]
    [] OTHER -> sel

RECURSIVE selectedAfter(_, _)
selectedAfter(sel, q) ==
  IF q = <<>> THEN sel ELSE selectedAfter(applyToSelected(sel, Head(q)), Tail(q))

\* App's content-sync effect (App.tsx:22-26) after a render that shows the
\* selection sel: the updates it requests
contentSync(sel) ==
  IF sel # NoSelection
  THEN <<Update("mapNodes", [id |-> sel.id, data |-> sel.data])>>
  ELSE <<>>

\* handleNodeClick (App.tsx:29-31), called by NodeGraph with the id and the
\* data of a rendered node
HandleNodeClick(i) ==
  /\ i \in DOMAIN nodes
  /\ Call("handleNodeClick")
  /\ queue' = Append(queue, Update("setSelectedNode",
                 [id |-> nodes[i].id,
                  data |-> [title |-> nodes[i].data.title, color |-> nodes[i].data.color,
                            description |-> nodes[i].data.description]]))
  /\ UNCHANGED <<shouldCaptureRef, requests, isRestoringRef, timers, now>>

\* handleNodeDataChange (App.tsx:34-38), called by the editing panel when the
\* user has changed a field
HandleNodeDataChange(data) ==
  /\ selectedNode # NoSelection
  /\ Call("handleNodeDataChange")
  /\ queue' = Append(queue, Update("setSelectedData", data))
  /\ UNCHANGED <<shouldCaptureRef, requests, isRestoringRef, timers, now>>

\* handleClose (App.tsx:41-43)
HandleClose ==
  /\ selectedNode # NoSelection
  /\ Call("handleClose")
  /\ queue' = Append(queue, Update("setSelectedNode", NoSelection))
  /\ UNCHANGED <<shouldCaptureRef, requests, isRestoringRef, timers, now>>

\* A render of App: the render of useGraphModel with its capture effect,
\* then App's effect, whose updates wait for the next render.
AppRender ==
  /\ queue # <<>>
  /\ LET p == Pending
         e == captureEffect(hookHistory, p.historyIndex, hookMaxSteps, isRestoringRef,
                            shouldCaptureRef, p.nodes, p.edges)
         sel == selectedAfter(selectedNode, queue)
         updates == contentSync(sel)
     IN /\ nodes' = p.nodes
        /\ edges' = p.edges
        /\ hookHistory' = e.history
        /\ historyIndex' = e.historyIndex
        /\ shouldCaptureRef' = e.shouldCapture
        /\ captured' = e.captured
        /\ consumed' = IF e.captured = 1 THEN requests ELSE 0
        /\ requests' = IF e.captured = 1 THEN 0 ELSE requests
        /\ selectedNode' = sel
        /\ queue' = updates
        /\ batch' = [i \in DOMAIN updates |-> "updateNodeData"]
  /\ graph' = 1 - graph
  /\ lastBatch' = batch
  /\ opBase' = IF Len(batch) = 1 /\ batch[1] \in Structural
               THEN [stage |-> 1, nodes |-> nodes, edges |-> edges]
               ELSE IF batch = <<"undo">> /\ opBase.stage = 1
               THEN [opBase EXCEPT !.stage = 2]
               ELSE NoBase
  /\ UNCHANGED <<hookMaxSteps, isRestoringRef, timers, now, budget>>
  /\ UNCHANGED <<managerVars, opVars>>

\* the callback of setTimeout(..., 0): a task of its own, after the render of
\* the task that called undo/redo; the updates that App's effect requested
\* may be rendered before it or after it
AppTimer ==
  /\ timers > 0
  /\ \A i \in DOMAIN queue : queue[i].op = "mapNodes"
  /\ timers' = timers - 1
  /\ isRestoringRef' = FALSE
  /\ UNCHANGED <<nodes, edges, hookHistory, historyIndex, hookMaxSteps, shouldCaptureRef,
                 queue, now, budget, batch, lastBatch, captured, requests, consumed,
                 opBase, selectedNode, graph>>
  /\ UNCHANGED <<managerVars, opVars>>

InitApp == HookMount(MaxCallsDrag) /\ ManagerOff /\ OpsOff
NextApp ==
  \/ (\E i \in DOMAIN nodes \cap {1} : HandleNodeClick(i)) /\ HooksOnly
  \/ (\E data \in Contents : HandleNodeDataChange(data)) /\ HooksOnly
  \/ HandleClose /\ HooksOnly
  \/ (\E t \in Clock : CreateNode(t)) /\ HooksOnly
  \/ OnNodeDragStop /\ HooksOnly
  \/ HookUndo /\ HooksOnly
  \/ HookRedo /\ HooksOnly
  \/ AppRender
  \/ AppTimer
SpecApp == InitApp /\ [][NextApp]_vars

\* the same with the scheduling of the runtime
SpecAppLive == InitApp /\ [][NextApp]_vars /\ WF_vars(AppRender) /\ WF_vars(AppTimer)

(***************************************************************************)
(* GraphOperations (src/src/lib/GraphOperations.ts): pure functions on     *)
(* node and edge arrays.  An array is a sequence of addresses of node or   *)
(* edge records on the heap.  A run builds the arguments and then calls    *)
(* the functions on them.                                                  *)
(***************************************************************************)
SeqsUpTo(S, n) == UNION {[1..k -> S] : k \in 0..n}

RECURSIVE NodesWithIds(_, _)
NodesWithIds(h, ids) ==
  IF ids = <<>>
  THEN [heap |-> h, refs |-> <<>>]
  ELSE LET rest == NodesWithIds(h, SubSeq(ids, 1, Len(ids) - 1))
           p == Alloc(rest.heap, Position(0))
           d == Alloc(p.heap, NodeData(0))
           n == Alloc(d.heap, Node(ids[Len(ids)], p.ref, d.ref))
       IN [heap |-> n.heap, refs |-> Append(rest.refs, n.ref)]

RECURSIVE EdgesWithEnds(_, _)
EdgesWithEnds(h, ends) ==
  IF ends = <<>>
  THEN [heap |-> h, refs |-> <<>>]
  ELSE LET rest == EdgesWithEnds(h, SubSeq(ends, 1, Len(ends) - 1))
           e == Alloc(rest.heap, Edge(Len(ends), ends[Len(ends)][1], ends[Len(ends)][2]))
       IN [heap |-> e.heap, refs |-> Append(rest.refs, e.ref)]

\* nodes.filter(n => n.id !== nodeId)
removeNode(h, ns, nodeId) == SelectSeq(ns, LAMBDA n : h[n].id # nodeId)

\* removeNodeEdges that looks at the source only
removeNodeEdges_sourceOnly(h, es, nodeId) == SelectSeq(es, LAMBDA e : h[e].source # nodeId)

\* edges.filter(e => e.source !== nodeId && e.target !== nodeId)
removeNodeEdges(h, es, nodeId) ==
  SelectSeq(es, LAMBDA e : h[e].source # nodeId /\ h[e].target # nodeId)

\* nodes.map(n => n.id)
getNodeIds(h, ns) == [i \in DOMAIN ns |-> h[ns[i]].id]

\* mutant: validateEdges that looks at the sources only
validateEdges_sourceOnly(h, ns, es) ==
  LET nodeIds == Range(getNodeIds(h, ns))
  IN \A i \in DOMAIN es : h[es[i]].source \in nodeIds

\* edges.every(e => nodeIds.has(e.source) && nodeIds.has(e.target))
validateEdges(h, ns, es) ==
  LET nodeIds == Range(getNodeIds(h, ns))
  IN \A i \in DOMAIN es : h[es[i]].source \in nodeIds /\ h[es[i]].target \in nodeIds

\* the arguments of a run: a node array and an edge array
OpsArguments ==
  \E ids \in SeqsUpTo(OpIds, MaxOpNodes), ends \in SeqsUpTo(OpIds \X OpIds, MaxOpEdges) :
    LET ns == NodesWithIds(<<>>, ids)
        es == EdgesWithEnds(ns.heap, ends)
    IN /\ heap = es.heap
       /\ opArgs = [nodes |-> ns.refs, edges |-> es.refs]
       /\ opRet = [op |-> "none"]

\* the objects of the arguments of a run
ArgObjects(h, args) ==
  Range(args.nodes) \cup Range(args.edges)
    \cup {h[n].position : n \in Range(args.nodes)} \cup {h[n].data : n \in Range(args.nodes)}

\* the heap once the result of the previous call is dropped: the objects of
\* the arguments, which were created first
Release(h, args) ==
  LET objs == ArgObjects(h, args)
  IN IF objs = {} THEN <<>> ELSE SubSeq(h, 1, CHOOSE a \in objs : \A b \in objs : b <= a)

\* a call that creates no object has returned
Returned(r) ==
  /\ opRet' = r
  /\ heap' = Release(heap, opArgs)
  /\ UNCHANGED <<opArgs, history, currentIndex, maxSteps, live, ret, retSrc, lastOp,
                 cut, recent, undos>>
  /\ UNCHANGED hookVars

RemoveNode(nodeId) ==
  Returned([op |-> "removeNode", nodeId |-> nodeId,
            nodes |-> removeNode(heap, opArgs.nodes, nodeId)])

RemoveNodeEdges(nodeId) ==
  Returned([op |-> "removeNodeEdges", nodeId |-> nodeId,
            edges |-> removeNodeEdges(heap, opArgs.edges, nodeId)])

ValidateEdges ==
  Returned([op |-> "validateEdges",
            valid |-> validateEdges(heap, opArgs.nodes, opArgs.edges)])

InitOps ==
  /\ OpsArguments
  /\ history = <<>>
  /\ currentIndex = 0
  /\ maxSteps = 0
  /\ live = Null
  /\ ret = Null
  /\ retSrc = Null
  /\ lastOp = "none"
  /\ cut = 0
  /\ recent = <<>>
  /\ undos = 0
  /\ HookOff

NextOps ==
  \/ \E nodeId \in OpIds : RemoveNode(nodeId)
  \/ \E nodeId \in OpIds : RemoveNodeEdges(nodeId)
  \/ ValidateEdges

SpecOps == InitOps /\ [][NextOps]_vars

(***************************************************************************)
(* GraphOperations: the functions that build nodes (generateNodeId,        *)
(* createNode, duplicateNode, addNode, updateNodeData, findNode).  They    *)
(* are called on the arrays of a run as the others are.  A call that       *)
(* creates objects puts them on the heap after the objects of the          *)
(* arguments; an array itself is a value, since every function builds its  *)
(* result with a spread, filter or map and assigns to no array.  Texts are *)
(* sequences of pieces, as in the hooks.  generateNodeId returns a random  *)
(* identifier (crypto.randomUUID, or the clock followed by nine random     *)
(* digits): a run draws it from GeneratedIds, as a value that no node of   *)
(* the arguments carries.                                                  *)
(***************************************************************************)
GeneratedIds == {4, 5}
\* Math.random() * 400 + 100
Coords == {100, 300}
Descriptions == {<<>>, <<"text">>}
\* the contents passed to GraphOperations.updateNodeData
NodeContents ==
  {[title |-> t, color |-> "red", description |-> d] : t \in {<<>>, <<"New">>}, d \in Descriptions}
\* the ends of the edges of these runs
OpEnds == {<<1, 2>>, <<2, 1>>}
\* what find() returns when no element matches
Undefined == 0 - 1

\* node literals: items[i] is the id and the description of the i-th node
RECURSIVE NodesWithData(_, _)
NodesWithData(h, items) ==
  IF items = <<>>
  THEN [heap |-> h, refs |-> <<>>]
  ELSE LET rest == NodesWithData(h, SubSeq(items, 1, Len(items) - 1))
           item == items[Len(items)]
           p == Alloc(rest.heap, Position(100))
           d == Alloc(p.heap, [kind |-> "data", title |-> <<"Title">>, color |-> "blue",
                               description |-> item[2], label |-> <<"Title">>])
           n == Alloc(d.heap, Node(item[1], p.ref, d.ref))
       IN [heap |-> n.heap, refs |-> Append(rest.refs, n.ref)]

\* GraphOperations.createNode (GraphOperations.ts:26-41)
createNode(h, id, x, y) ==
  LET p == Alloc(h, [kind |-> "position", x |-> x, y |-> y])
      d == Alloc(p.heap, [kind |-> "data", title |-> <<"New Node">>, color |-> "purple",
                          description |-> <<>>, label |-> <<"New Node">>])
      n == Alloc(d.heap, Node(id, p.ref, d.ref))
  IN [heap |-> n.heap, ret |-> n.ref]

\* mutant: the spread of the node comes last, so its id is kept
duplicateNode_keepId(h, node, id) ==
  LET p == Alloc(h, [kind |-> "position", x |-> h[h[node].position].x + 50,
                     y |-> h[h[node].position].y + 50])
      d == Alloc(p.heap, [h[h[node].data] EXCEPT
                            !.title = @ \o <<" (Copy)">>,
                            !.label = h[h[node].data].title \o <<" (Copy)">>])
      n == Alloc(d.heap, [h[node] EXCEPT !.position = p.ref, !.data = d.ref])
  IN [heap |-> n.heap, ret |-> n.ref]

\* GraphOperations.duplicateNode (GraphOperations.ts:46-60) with the id that
\* generateNodeId returned
duplicateNode(h, node, id) ==
  LET p == Alloc(h, [kind |-> "position", x |-> h[h[node].position].x + 50,
                     y |-> h[h[node].position].y + 50])
      d == Alloc(p.heap, [h[h[node].data] EXCEPT
                            !.title = @ \o <<" (Copy)">>,
                            !.label = h[h[node].data].title \o <<" (Copy)">>])
      n == Alloc(d.heap, [h[node] EXCEPT !.id = id, !.position = p.ref, !.data = d.ref])
  IN [heap |-> n.heap, ret |-> n.ref]

\* [...nodes, newNode]
addNode(h, ns, newNode) == Append(ns, newNode)

\* mutant: the label is the title whatever the description
updatedNode_noSuffix(h, node, nodeId, data) ==
  IF h[node].id = nodeId
  THEN LET d == Alloc(h, [kind |-> "data", title |-> data.title, color |-> data.color,
                          description |-> data.description, label |-> data.title])
           n == Alloc(d.heap, [h[node] EXCEPT !.data = d.ref])
       IN [heap |-> n.heap, ret |-> n.ref]
  ELSE [heap |-> h, ret |-> node]

\* mutant: the data object of the node is assigned to in place
updatedNode_inPlace(h, node, nodeId, data) ==
  IF h[node].id = nodeId
  THEN [heap |-> [h EXCEPT ![h[node].data] =
                    [kind |-> "data", title |-> data.title, color |-> data.color,
                     description |-> data.description,
                     label |-> data.title \o (IF Len(data.description) > 0
                                              THEN <<"(...)">> ELSE <<>>)]],
        ret |-> node]
  ELSE [heap |-> h, ret |-> node]

\* mutant: every node is given the data
updatedNode_anyId(h, node, nodeId, data) ==
  LET d == Alloc(h, [kind |-> "data", title |-> data.title, color |-> data.color,
                     description |-> data.description,
                     label |-> data.title \o (IF Len(data.description) > 0
                                              THEN <<"(...)">> ELSE <<>>)])
      n == Alloc(d.heap, [h[node] EXCEPT !.data = d.ref])
  IN [heap |-> n.heap, ret |-> n.ref]

\* mutant: the node is rebuilt from its id and the data, without the spread
updatedNode_noSpread(h, node, nodeId, data) ==
  IF h[node].id = nodeId
  THEN LET p == Alloc(h, Position(0))
           d == Alloc(p.heap, [kind |-> "data", title |-> data.title, color |-> data.color,
                               description |-> data.description,
                               label |-> data.title \o (IF Len(data.description) > 0
                                                        THEN <<"(...)">> ELSE <<>>)])
           n == Alloc(d.heap, [kind |-> "node", id |-> nodeId, type |-> "default",
                               position |-> p.ref, data |-> d.ref])
       IN [heap |-> n.heap, ret |-> n.ref]
  ELSE [heap |-> h, ret |-> node]

\* the function that updateNodeData maps over the nodes
\* (GraphOperations.ts:87-97)
updatedNode(h, node, nodeId, data) ==
  IF h[node].id = nodeId
  THEN LET d == Alloc(h, [kind |-> "data", title |-> data.title, color |-> data.color,
                          description |-> data.description,
                          label |-> data.title \o (IF Len(data.description) > 0
                                                   THEN <<"(...)">> ELSE <<>>)])
           n == Alloc(d.heap, [h[node] EXCEPT !.data = d.ref])
       IN [heap |-> n.heap, ret |-> n.ref]
  ELSE [heap |-> h, ret |-> node]

\* GraphOperations.updateNodeData (GraphOperations.ts:86-98)
RECURSIVE updateNodeData(_, _, _, _)
updateNodeData(h, ns, nodeId, data) ==
  IF ns = <<>>
  THEN [heap |-> h, ret |-> <<>>]
  ELSE LET rest == updateNodeData(h, SubSeq(ns, 1, Len(ns) - 1), nodeId, data)
           last == updatedNode(rest.heap, ns[Len(ns)], nodeId, data)
       IN [heap |-> last.heap, ret |-> Append(rest.ret, last.ret)]

\* mutant: the first node when none matches
findNode_first(h, ns, nodeId) ==
  LET found == {i \in DOMAIN ns : h[ns[i]].id = nodeId}
  IN IF found = {}
     THEN IF ns = <<>> THEN Undefined ELSE ns[1]
     ELSE ns[CHOOSE i \in found : \A j \in found : i <= j]

\* nodes.find(n => n.id === nodeId)
findNode(h, ns, nodeId) ==
  LET found == {i \in DOMAIN ns : h[ns[i]].id = nodeId}
  IN IF found = {} THEN Undefined ELSE ns[CHOOSE i \in found : \A j \in found : i <= j]

\* the arguments of a run: a node array and an edge array
NodeOpsArguments ==
  \E items \in SeqsUpTo(OpIds \X Descriptions, MaxOpNodes), ends \in SeqsUpTo(OpEnds, MaxOpEdges) :
    LET ns == NodesWithData(<<>>, items)
        es == EdgesWithEnds(ns.heap, ends)
    IN /\ heap = es.heap
       /\ opArgs = [nodes |-> ns.refs, edges |-> es.refs]
       /\ opRet = [op |-> "none"]

\* a call that created objects has returned
Created(h, r) ==
  /\ opRet' = r
  /\ heap' = h
  /\ UNCHANGED <<opArgs, history, currentIndex, maxSteps, live, ret, retSrc, lastOp,
                 cut, recent, undos>>
  /\ UNCHANGED hookVars

\* GraphOperations.addNode(nodes, GraphOperations.createNode())
AddNode(id, x) ==
  LET c == createNode(Release(heap, opArgs), id, x, x)
  IN Created(c.heap, [op |-> "addNode", newNode |-> c.ret,
                      nodes |-> addNode(c.heap, opArgs.nodes, c.ret)])

\* GraphOperations.duplicateNode(nodes[i])
OpDuplicateNode(i, id) ==
  LET r == duplicateNode(Release(heap, opArgs), opArgs.nodes[i], id)
  IN Created(r.heap, [op |-> "duplicateNode", node |-> opArgs.nodes[i], duplicate |-> r.ret])

\* GraphOperations.updateNodeData(nodes, nodeId, data)
OpUpdateNodeData(nodeId, data) ==
  LET r == updateNodeData(Release(heap, opArgs), opArgs.nodes, nodeId, data)
  IN Created(r.heap, [op |-> "updateNodeData", nodeId |-> nodeId, data |-> data,
                      nodes |-> r.ret])

\* GraphOperations.findNode(nodes, nodeId)
FindNode(nodeId) ==
  Returned([op |-> "findNode", nodeId |-> nodeId,
            node |-> findNode(heap, opArgs.nodes, nodeId)])

\* GraphOperations.getNodeIds(nodes)
GetNodeIds ==
  Returned([op |-> "getNodeIds", ids |-> getNodeIds(heap, opArgs.nodes)])

InitNodeOps ==
  /\ NodeOpsArguments
  /\ history = <<>>
  /\ currentIndex = 0
  /\ maxSteps = 0
  /\ live = Null
  /\ ret = Null
  /\ retSrc = Null
  /\ lastOp = "none"
  /\ cut = 0
  /\ recent = <<>>
  /\ undos = 0
  /\ HookOff

NextNodeOps ==
  \/ \E id \in GeneratedIds, x \in Coords : AddNode(id, x)
  \/ \E i \in DOMAIN opArgs.nodes, id \in GeneratedIds : OpDuplicateNode(i, id)
  \/ \E nodeId \in OpIds, data \in NodeContents : OpUpdateNodeData(nodeId, data)
  \/ \E nodeId \in OpIds : FindNode(nodeId)
  \/ GetNodeIds
  \/ \E nodeId \in OpIds : RemoveNode(nodeId)
  \/ \E nodeId \in OpIds : RemoveNodeEdges(nodeId)
  \/ ValidateEdges

SpecNodeOps == InitNodeOps /\ [][NextNodeOps]_vars

\* A run is either calls of GraphOperations on the arrays of the run or a run
\* of the hooks.
InitGraph == InitNodeOps \/ InitHook
NextGraph ==
  \/ opArgs # <<>> /\ NextNodeOps
  \/ NextHook
SpecGraph == InitGraph /\ [][NextGraph]_vars

(***************************************************************************)
(* Properties.                                                             *)
(***************************************************************************)
Entry(i) == history[i + 1]                 \* this.history[i]
EntryValue(h, hist, i) == Value(h, hist[i + 1])
Distinct(s) == \A i, j \in DOMAIN s : i # j => s[i] # s[j]

\* C1: with maxSteps = M >= 0 the log never holds more than M + 1 entries,
\* whatever sequence of capture, undo and redo calls was made.
C1_HistoryBound ==
  maxSteps >= 0 => length(history) <= maxSteps + 1

\* more than maxSteps captures in a row have been made and the log is full
C1_Witness ==
  /\ maxSteps >= 1
  /\ lastOp = "capture"
  /\ Len(recent) = maxSteps + 1
  /\ length(history) = maxSteps + 1

\* C2: after a capture canRedo() is false, and an entry that lay beyond the
\* index when a capture was made is never in the log again, so that no later
\* undo or redo returns it.
C2_BranchCleared ==
  /\ lastOp = "capture" => ~canRedo(history, currentIndex)
  /\ \A i \in DOMAIN history : ~heap[history[i]].dead
  /\ (ret # Null /\ retSrc + 1 \in DOMAIN history) => ~heap[Entry(retSrc)].dead

\* a capture made two undos behind the end has just cut two entries off
C2_Witness ==
  /\ lastOp = "capture"
  /\ cut = 2
  /\ currentIndex = 1

\* C3: an in-place edit of the content of a graph that was passed to the
\* constructor or to capture, or that undo/redo returned, changes the content
\* of no stored entry and of no graph returned later: ids, types, data fields
\* and edges of an entry stay those of the graph it was cloned from.
C3_ContentIsolated ==
  /\ \A i \in DOMAIN history :
       Content(Value(heap, history[i])) = Content(heap[history[i]].born)
  /\ (ret # Null /\ lastOp \in {"undo", "redo"}) =>
       Content(Value(heap, ret)) = Content(heap[Entry(currentIndex)].born)

\* undo has returned an entry whose title differs from the title of the next
\* entry although both were cloned from the same node (they share its
\* position object): the title was edited in place between the two captures
C3_Witness ==
  /\ lastOp = "undo"
  /\ ret # Null
  /\ currentIndex + 2 \in DOMAIN history
  /\ LET a == Entry(currentIndex)
         b == Entry(currentIndex + 1)
     IN /\ Len(heap[a].nodes) = 1
        /\ Len(heap[b].nodes) = 1
        /\ heap[heap[a].nodes[1]].position = heap[heap[b].nodes[1]].position
        /\ heap[heap[heap[a].nodes[1]].data].title # heap[heap[heap[b].nodes[1]].data].title
        /\ heap[heap[heap[ret].nodes[1]].data].title = heap[a].born.nodes[1].data.title

\* C4: no object reachable from a stored entry (node record, data object,
\* position object, edge record) is also reachable from the client's graph or
\* from another stored entry.
C4_NoSharedObject ==
  /\ \A i \in DOMAIN history : Reach(heap, {history[i]}) \cap Reach(heap, {live}) = {}
  /\ \A i, j \in DOMAIN history :
       i # j => Reach(heap, {history[i]}) \cap Reach(heap, {history[j]}) = {}

\* C5: undo() with index > 0 moves the index down by exactly one and returns
\* a graph equal to the entry then at the index; with index 0 it returns null
\* and changes neither the index nor the length nor any entry.
C5_Undo ==
  [][lastOp' = "undo" =>
       IF currentIndex > 0
       THEN /\ currentIndex' = currentIndex - 1
            /\ ret' # Null
            /\ Value(heap', ret') = EntryValue(heap', history', currentIndex')
            /\ Value(heap', ret') = EntryValue(heap, history, currentIndex - 1)
       ELSE /\ ret' = Null
            /\ currentIndex' = currentIndex
            /\ Len(history') = Len(history)
            /\ \A i \in DOMAIN history : Value(heap', history'[i]) = Value(heap, history[i])
    ]_vars

\* undo has returned a graph that differs from the entry it stepped back from
C5_Witness ==
  /\ lastOp = "undo"
  /\ ret # Null
  /\ Value(heap, ret) # EntryValue(heap, history, currentIndex + 1)

\* C6: redo() with the index below the last position moves the index up by
\* exactly one and returns a graph equal to the entry then at the index;
\* otherwise it returns null and changes neither the index nor the length nor
\* any entry.
C6_Redo ==
  [][lastOp' = "redo" =>
       IF currentIndex < Len(history) - 1
       THEN /\ currentIndex' = currentIndex + 1
            /\ ret' # Null
            /\ Value(heap', ret') = EntryValue(heap', history', currentIndex')
            /\ Value(heap', ret') = EntryValue(heap, history, currentIndex + 1)
       ELSE /\ ret' = Null
            /\ currentIndex' = currentIndex
            /\ Len(history') = Len(history)
            /\ \A i \in DOMAIN history : Value(heap', history'[i]) = Value(heap, history[i])
    ]_vars

\* redo has returned a graph that differs from the entry it stepped on from,
\* and a further entry lies ahead
C6_Witness ==
  /\ lastOp = "redo"
  /\ ret # Null
  /\ currentIndex = 1
  /\ Len(history) = 3
  /\ Value(heap, ret) # EntryValue(heap, history, 0)

\* C7: canUndo() is true exactly when the next undo() would return a graph,
\* canRedo() exactly when the next redo() would.
C7_CanUndoCanRedo ==
  /\ canUndo(currentIndex) <=> (undo(history, currentIndex, heap).ret # Null)
  /\ canRedo(history, currentIndex) <=> (redo(history, currentIndex, heap).ret # Null)

\* the index is strictly inside the log: both are possible
C7_Witness ==
  /\ canUndo(currentIndex)
  /\ canRedo(history, currentIndex)

\* C8: after capture(s) on a manager with maxSteps >= 0 the index is the last
\* position and the entry there equals s.  When the append makes the log
\* longer than maxSteps + 1 the oldest entry is dropped and the index stays,
\* otherwise the entries up to the index are kept and the index moves up by
\* one; the index never exceeds maxSteps.
C8_Capture ==
  [][(lastOp' = "capture" /\ maxSteps >= 0) =>
       /\ currentIndex' = Len(history') - 1
       /\ EntryValue(heap', history', currentIndex') = Value(heap, live)
       /\ currentIndex' <= maxSteps
       /\ IF (currentIndex + 1) + 1 > maxSteps + 1
          THEN /\ currentIndex' = currentIndex
               /\ \A i \in 0..(currentIndex - 1) :
                    EntryValue(heap', history', i) = EntryValue(heap, history, i + 1)
          ELSE /\ currentIndex' = currentIndex + 1
               /\ \A i \in 0..currentIndex :
                    EntryValue(heap', history', i) = EntryValue(heap, history, i)
    ]_vars

\* a capture has just dropped the oldest entry of a full log of three
C8_Witness ==
  /\ lastOp = "capture"
  /\ maxSteps = 2
  /\ currentIndex = 2
  /\ Len(recent) = 3
  /\ Distinct(recent)

\* C9: after more than maxSteps >= 1 captures in a row the log holds exactly
\* the maxSteps + 1 states captured last, in capture order; the next maxSteps
\* undo() calls return them in reverse order (starting below the newest) and
\* a further undo() returns null, canUndo() being false.
C9_UndoAfterLimit ==
  (maxSteps >= 1 /\ Len(recent) = maxSteps + 1) =>
    /\ lastOp = "capture" =>
         /\ Len(history) = maxSteps + 1
         /\ \A i \in DOMAIN history : Value(heap, history[i]) = recent[i]
    /\ lastOp = "undo" =>
         IF undos <= maxSteps
         THEN /\ ret # Null
              /\ Value(heap, ret) = recent[maxSteps + 1 - undos]
         ELSE /\ ret = Null
              /\ ~canUndo(currentIndex)

\* three distinct states captured in a row on a full log, two undos done and
\* the third one refused
C9_Witness ==
  /\ maxSteps = 2
  /\ Len(recent) = 3
  /\ Distinct(recent)
  /\ lastOp = "undo"
  /\ undos = 3
  /\ ret = Null

\* C10: a manager that has just been constructed holds one entry, equal to
\* the graph it was constructed with, at index 0; canUndo() and canRedo() are
\* false and undo() and redo() return null.
C10_InitialState ==
  lastOp = "constructor" =>
    /\ length(history) = 1
    /\ getCurrentIndex(currentIndex) = 0
    /\ ~canUndo(currentIndex)
    /\ ~canRedo(history, currentIndex)
    /\ Value(heap, history[1]) = Value(heap, live)
    /\ undo(history, currentIndex, heap).ret = Null
    /\ redo(history, currentIndex, heap).ret = Null

\* a manager constructed on a graph with two nodes and an edge
C10_Witness ==
  /\ lastOp = "constructor"
  /\ Len(heap[live].nodes) = 2
  /\ Len(heap[live].edges) = 1

(***************************************************************************)
(* Properties of the hooks.  A render step is the step that empties a      *)
(* non-empty queue.                                                        *)
(***************************************************************************)
RenderStep == queue # <<>> /\ queue' = <<>>
Only(b, names) == b # <<>> /\ \A i \in DOMAIN b : b[i] \in names
IdsInOrder(ns) == [i \in DOMAIN ns |-> ns[i].id]
Snapshot(ns, es) == [nodes |-> ns, edges |-> es]

\* C11: undo() and redo() of HistoryManager leave the sequence of entries as
\* it was: the same length and, position by position, the same entry with
\* the same value; only the index moves.  In the hooks, a render that
\* processes undo and redo calls and no mutation leaves the history state
\* (so historyLength too) as it was, also when a capture request made by
\* captureSnapshot() is pending.
C11_EntriesKept ==
  [][/\ (history # <<>> /\ lastOp' \in {"undo", "redo"}) =>
          /\ Len(history') = Len(history)
          /\ \A i \in DOMAIN history :
               /\ history'[i] = history[i]
               /\ Value(heap', history'[i]) = Value(heap, history[i])
          /\ maxSteps' = maxSteps
     /\ (RenderStep /\ Only(batch, {"undo", "redo", "captureSnapshot"})) =>
          /\ hookHistory' = hookHistory
          /\ Len(hookHistory') = Len(hookHistory)
     /\ (batch' = Append(batch, "undo") \/ batch' = Append(batch, "redo")) =>
          hookHistory' = hookHistory]_vars

\* C11 happens: an undo was rendered while a capture request was pending,
\* and the two entries are still there.
C11_Witness ==
  /\ lastBatch = <<"captureSnapshot", "undo">>
  /\ batch = <<>>
  /\ shouldCaptureRef
  /\ historyIndex = 0
  /\ Len(hookHistory) = 2
  /\ nodes = hookHistory[1].nodes

\* C12: the entry a render's effect appends is the graph that this render
\* shows, which holds the result of the mutation requested with the capture;
\* it is never the graph from before the mutation.
C12_CaptureIsLive ==
  captured = 1 =>
    /\ hookHistory[Len(hookHistory)] = Snapshot(nodes, edges)
    /\ historyIndex = Len(hookHistory) - 1
    /\ (lastBatch = <<"createNode">> /\ opBase.stage = 1 =>
          Len(hookHistory[Len(hookHistory)].nodes) = Len(opBase.nodes) + 1)
    /\ (lastBatch = <<"onConnect">> /\ opBase.stage = 1 =>
          Len(hookHistory[Len(hookHistory)].edges) = Len(opBase.edges) + 1)

\* C12 happens: a deleteNode of the first node was rendered and captured;
\* the new entry has neither the node nor its two edges.
C12_Witness ==
  /\ captured = 1
  /\ lastBatch = <<"deleteNode">>
  /\ Len(hookHistory) = 2
  /\ Len(hookHistory[2].nodes) = 2
  /\ hookHistory[2].edges = <<>>
  /\ Len(hookHistory[1].nodes) = 3

\* C13: a structural call (createNode, duplicateNode, deleteNode, onConnect)
\* made alone and rendered, followed by an undo call made alone and
\* rendered, leaves the live graph with the node ids and the edges it had
\* before the structural call.
C13_UndoRestores ==
  opBase.stage = 2 =>
    /\ IdsInOrder(nodes) = IdsInOrder(opBase.nodes)
    /\ edges = opBase.edges

\* C14: two undo calls made back-to-back, with no render between them, at an
\* index of at least two move the index down by two and show the entry two
\* positions down.
C14_TwoUndos ==
  [][(RenderStep /\ batch = <<"undo", "undo">> /\ historyIndex >= 2) =>
       /\ historyIndex' = historyIndex - 2
       /\ nodes' = hookHistory[historyIndex - 1].nodes
       /\ edges' = hookHistory[historyIndex - 1].edges]_vars

\* C15: a render that processes structural calls only appends as many
\* entries as there were calls.
C15_EntryPerCall ==
  [][(RenderStep /\ Only(batch, Structural)) => captured' = Len(batch)]_vars

\* C16: a capture request is eventually fulfilled: the flag is consumed by a
\* capture and canUndo is true.
C16_RequestFulfilled == shouldCaptureRef ~> (~shouldCaptureRef /\ historyIndex > 0)

C18_UpdateNotCaptured ==
  [][(RenderStep /\ Only(batch, {"updateNodeData"}) /\ ~shouldCaptureRef) =>
       /\ hookHistory' = hookHistory
       /\ historyIndex' = historyIndex
       /\ captured' = 0]_vars

\* C18 happens: an update of the first node was rendered and the history
\* still has its one entry.
C18_Witness ==
  /\ lastBatch = <<"updateNodeData">>
  /\ nodes[1].data.title = <<"Updated">>
  /\ hookHistory = <<Snapshot(initialNodes, initialEdges)>>
  /\ historyIndex = 0

\* C19: in the live graph and in every history entry, the source and the
\* target of every edge are ids of nodes of the same graph.
HookValid(ns, es) ==
  \A i \in DOMAIN es : es[i].source \in Ids(ns) /\ es[i].target \in Ids(ns)
C19_EdgesValid ==
  /\ HookValid(nodes, edges)
  /\ HookValid(Pending.nodes, Pending.edges)
  /\ \A i \in DOMAIN hookHistory : HookValid(hookHistory[i].nodes, hookHistory[i].edges)

\* C19 happens: the first node, which two edges start from, was deleted and
\* the deletion captured (an entry without the node and without edges), and
\* an undo brought the node and its two edges back.
C19_Witness ==
  /\ Len(hookHistory) >= 2
  /\ \E i \in DOMAIN hookHistory :
       /\ 1 \notin Ids(hookHistory[i].nodes)
       /\ hookHistory[i].edges = <<>>
  /\ lastBatch = <<"undo">>
  /\ 1 \in Ids(nodes)
  /\ Len(edges) = 2

\* C20: for a node id n present in the node array, removeNode returns no
\* node with id n, removeNodeEdges returns no edge whose source or target is
\* n, and when validateEdges held of the arguments it holds of the two
\* results.
C20_CascadingDelete ==
  (opRet.op \in {"removeNode", "removeNodeEdges"}
     /\ opRet.nodeId \in Range(getNodeIds(heap, opArgs.nodes))) =>
    LET n == opRet.nodeId
        ns == IF opRet.op = "removeNode" THEN opRet.nodes
              ELSE removeNode(heap, opArgs.nodes, n)
        es == IF opRet.op = "removeNodeEdges" THEN opRet.edges
              ELSE removeNodeEdges(heap, opArgs.edges, n)
    IN /\ \A i \in DOMAIN ns : heap[ns[i]].id # n
       /\ \A i \in DOMAIN es : heap[es[i]].source # n /\ heap[es[i]].target # n
       /\ validateEdges(heap, opArgs.nodes, opArgs.edges) => validateEdges(heap, ns, es)

\* C20 happens: removeNodeEdges was called on a valid graph of two nodes
\* with an edge into the removed node and an edge that stays.
C20_Witness ==
  /\ opRet.op = "removeNodeEdges"
  /\ Len(opArgs.nodes) = 2
  /\ Len(opArgs.edges) = 2
  /\ validateEdges(heap, opArgs.nodes, opArgs.edges)
  /\ opRet.nodeId \in Range(getNodeIds(heap, opArgs.nodes))
  /\ Len(opRet.edges) = 1
  /\ heap[opArgs.edges[1]].target = opRet.nodeId
  /\ heap[opArgs.edges[1]].source # opRet.nodeId

\* C28: on a manager with maxSteps >= 0 the log is never empty and the index
\* always designates an entry of it: length() >= 1 and
\* 0 <= getCurrentIndex() <= length() - 1 after any calls.
C28_IndexInLog ==
  maxSteps >= 0 =>
    /\ length(history) >= 1
    /\ 0 <= getCurrentIndex(currentIndex)
    /\ getCurrentIndex(currentIndex) <= length(history) - 1

\* a capture on a full log has dropped the oldest entry and left the index at
\* the last position
C28_Witness ==
  /\ maxSteps = 1
  /\ lastOp = "capture"
  /\ Len(recent) = 2
  /\ Distinct(recent)
  /\ getCurrentIndex(currentIndex) = length(history) - 1

\* C29: capture(s) at index i replaces the log by its entries 0..i followed
\* by s, before the oldest entry is dropped if the log got too long; on a log
\* of three entries two undos and a capture leave two entries, the first one
\* and s, at index 1.
C29_CaptureReplacesTail ==
  [][(lastOp' = "capture" /\ maxSteps >= 0) =>
       LET kept == [j \in 1..(currentIndex + 1) |-> Value(heap, history[j])]
           pushed == Append(kept, Value(heap, live))
           after == [j \in DOMAIN history' |-> Value(heap', history'[j])]
       IN /\ after = IF Len(pushed) > maxSteps + 1 THEN Tail(pushed) ELSE pushed
          /\ (Len(history) = 3 /\ currentIndex = 0 /\ maxSteps >= 2) =>
                /\ Len(history') = 2
                /\ currentIndex' = 1
                /\ ~canRedo(history', currentIndex')
                /\ Value(heap', history'[1]) = Value(heap, history[1])
                /\ Value(heap', history'[2]) = Value(heap, live)
    ]_vars

\* the scenario: a log of three, two undos, and a capture of a graph that
\* differs from the first entry
C29_Witness ==
  /\ lastOp = "capture"
  /\ maxSteps = 2
  /\ cut = 2
  /\ Len(history) = 2
  /\ currentIndex = 1
  /\ Value(heap, history[1]) # Value(heap, history[2])

\* C30: a redo() that follows an undo() which returned a graph returns a graph
\* equal to the entry that was current before the undo and puts the index
\* back; an undo() that follows a redo() which returned a graph returns the
\* entry that was current before the redo and puts the index back.
C30_UndoRedoInverse ==
  [][/\ (lastOp = "undo" /\ ret # Null /\ lastOp' = "redo") =>
          /\ ret' # Null
          /\ currentIndex' = retSrc + 1
          /\ Value(heap', ret') = EntryValue(heap, history, retSrc + 1)
     /\ (lastOp = "redo" /\ ret # Null /\ lastOp' = "undo") =>
          /\ ret' # Null
          /\ currentIndex' = retSrc - 1
          /\ Value(heap', ret') = EntryValue(heap, history, retSrc - 1)
    ]_vars

\* a redo on a log of two has returned the last entry, which differs from the
\* first: the index had gone down to 0 by an undo and is back at 1
C30_Witness ==
  /\ lastOp = "redo"
  /\ ret # Null
  /\ Len(history) = 2
  /\ currentIndex = 1
  /\ Value(heap, ret) = EntryValue(heap, history, 1)
  /\ Value(heap, ret) # EntryValue(heap, history, 0)

\* C27: validateEdges(nodes, edges) returns true exactly when the source and
\* the target of every edge are ids of nodes of the array, and so it returns
\* true for an empty edge array whatever the nodes.
C27_ValidateEdges ==
  opRet.op = "validateEdges" =>
    /\ opRet.valid <=>
         \A j \in DOMAIN opArgs.edges :
           /\ \E i \in DOMAIN opArgs.nodes :
                heap[opArgs.nodes[i]].id = heap[opArgs.edges[j]].source
           /\ \E i \in DOMAIN opArgs.nodes :
                heap[opArgs.nodes[i]].id = heap[opArgs.edges[j]].target
    /\ opArgs.edges = <<>> => opRet.valid

\* false was returned for two edges from a node of the array, the first to a
\* node of the array and the second to a node that is not in it
C27_Witness ==
  /\ opRet.op = "validateEdges"
  /\ ~opRet.valid
  /\ Len(opArgs.edges) = 2
  /\ Len(opArgs.nodes) = 2
  /\ \A j \in DOMAIN opArgs.edges : heap[opArgs.edges[j]].source = heap[opArgs.nodes[1]].id
  /\ heap[opArgs.edges[1]].target = heap[opArgs.nodes[2]].id
  /\ \A i \in DOMAIN opArgs.nodes : heap[opArgs.nodes[i]].id # heap[opArgs.edges[2]].target

\* the data object of a node
DataOf(h, n) == h[h[n].data]
\* the ids of a node array on the heap
ArgIds(h, ns) == {h[ns[i]].id : i \in DOMAIN ns}

\* C21: the nodes of the live graph have pairwise distinct ids after any
\* createNode, duplicateNode, deleteNode, undo and redo calls, two calls made
\* within the same clock tick included.
C21_UniqueIds ==
  Distinct(IdsInOrder(nodes))

\* C22: the node with the given id in updateNodeData(nodes, id, C) has the
\* title, color and description of C, and its label is C.title when
\* C.description is empty and C.title followed by "(...)" otherwise.
C22_UpdateNodeData ==
  opRet.op = "updateNodeData" =>
    /\ Len(opRet.nodes) = Len(opArgs.nodes)
    /\ \A i \in DOMAIN opArgs.nodes :
         heap[opArgs.nodes[i]].id = opRet.nodeId =>
           LET d == DataOf(heap, opRet.nodes[i])
           IN /\ heap[opRet.nodes[i]].id = opRet.nodeId
              /\ d.title = opRet.data.title
              /\ d.color = opRet.data.color
              /\ d.description = opRet.data.description
              /\ opRet.data.description = <<>> => d.label = opRet.data.title
              /\ opRet.data.description # <<>> => d.label = opRet.data.title \o <<"(...)">>

\* the second of two nodes was given a content with a title and a
\* description, and now carries the suffixed label
C22_Witness ==
  /\ opRet.op = "updateNodeData"
  /\ Len(opArgs.nodes) = 2
  /\ heap[opArgs.nodes[1]].id # opRet.nodeId
  /\ heap[opArgs.nodes[2]].id = opRet.nodeId
  /\ opRet.data.description # <<>>
  /\ DataOf(heap, opRet.nodes[2]).label = <<"New", "(...)">>

\* C23: the label of the node duplicateNode(node) returns is its title, that
\* is the title of node followed by " (Copy)", with "(...)" appended when the
\* description of node is not empty.
C23_DuplicateLabel ==
  opRet.op = "duplicateNode" =>
    LET o == DataOf(heap, opRet.node)
        d == DataOf(heap, opRet.duplicate)
    IN d.label = (o.title \o <<" (Copy)">>)
                   \o (IF o.description = <<>> THEN <<>> ELSE <<"(...)">>)

\* C24: duplicateNode(node) returns a node whose id differs from the id of
\* node, whose position is that of node plus 50 on both axes, whose title is
\* the title of node followed by " (Copy)" and whose color, description and
\* type are those of node; node, its data and its position are as before.
C24_DuplicateNode ==
  [][opRet'.op = "duplicateNode" =>
       LET node == opRet'.node
           dup == opRet'.duplicate
       IN /\ heap'[dup].id # heap[node].id
          /\ heap'[heap'[dup].position].x = heap[heap[node].position].x + 50
          /\ heap'[heap'[dup].position].y = heap[heap[node].position].y + 50
          /\ DataOf(heap', dup).title = DataOf(heap, node).title \o <<" (Copy)">>
          /\ DataOf(heap', dup).color = DataOf(heap, node).color
          /\ DataOf(heap', dup).description = DataOf(heap, node).description
          /\ heap'[dup].type = heap[node].type
          /\ heap'[node] = heap[node]
          /\ heap'[heap[node].data] = heap[heap[node].data]
          /\ heap'[heap[node].position] = heap[heap[node].position]
    ]_vars

\* the second of two nodes, which has a description, was duplicated: the copy
\* is a new object at (150, 150)
C24_Witness ==
  /\ opRet.op = "duplicateNode"
  /\ Len(opArgs.nodes) = 2
  /\ opRet.node = opArgs.nodes[2]
  /\ opRet.duplicate # opRet.node
  /\ DataOf(heap, opRet.node).description # <<>>
  /\ heap[heap[opRet.duplicate].position].x = 150
  /\ heap[opRet.duplicate].id \in GeneratedIds

\* C25: a call of addNode, removeNode, removeNodeEdges, updateNodeData,
\* findNode, validateEdges or getNodeIds leaves the arrays it was given and
\* their elements (node, data, position and edge objects) as they were.
C25_InputsKept ==
  [][opRet'.op \in {"addNode", "removeNode", "removeNodeEdges", "updateNodeData",
                    "findNode", "validateEdges", "getNodeIds"} =>
       /\ opArgs' = opArgs
       /\ \A a \in ArgObjects(heap, opArgs) : a \in DOMAIN heap' /\ heap'[a] = heap[a]
    ]_vars

\* updateNodeData has returned an array whose second node is a new object
\* with a new title, the node passed in still carrying the old one
C25_Witness ==
  /\ opRet.op = "updateNodeData"
  /\ Len(opArgs.nodes) = 2
  /\ opRet.nodes[1] = opArgs.nodes[1]
  /\ opRet.nodes[2] # opArgs.nodes[2]
  /\ DataOf(heap, opRet.nodes[2]).title = <<"New">>
  /\ DataOf(heap, opArgs.nodes[2]).title = <<"Title">>

\* C26: with an id that no node has (no edge, for removeNodeEdges),
\* removeNode, removeNodeEdges and updateNodeData return an array whose
\* elements equal those of the array passed in, findNode returns undefined,
\* and duplicateNode of the graph model returns null, requests no update and
\* no capture and leaves the graph and the history as they were.
C26_AbsentId ==
  [][/\ opArgs # <<>> =>
          LET absent == opRet'.nodeId \notin ArgIds(heap, opArgs.nodes)
              same(a, b) == /\ Len(a) = Len(b)
                            /\ \A i \in DOMAIN a : NodeValue(heap', a[i]) = NodeValue(heap, b[i])
          IN /\ (opRet'.op = "removeNode" /\ absent) => same(opRet'.nodes, opArgs.nodes)
             /\ (opRet'.op = "updateNodeData" /\ absent) => same(opRet'.nodes, opArgs.nodes)
             /\ (opRet'.op = "findNode" /\ absent) => opRet'.node = Undefined
             /\ (/\ opRet'.op = "removeNodeEdges"
                 /\ \A j \in DOMAIN opArgs.edges :
                      /\ heap[opArgs.edges[j]].source # opRet'.nodeId
                      /\ heap[opArgs.edges[j]].target # opRet'.nodeId) =>
                  /\ Len(opRet'.edges) = Len(opArgs.edges)
                  /\ \A j \in DOMAIN opArgs.edges :
                       EdgeValue(heap', opRet'.edges[j]) = EdgeValue(heap, opArgs.edges[j])
     /\ batch' = Append(batch, ReturnedNull) =>
          /\ queue' = queue
          /\ Pending' = Pending
          /\ shouldCaptureRef' = shouldCaptureRef
          /\ UNCHANGED <<nodes, edges, hookHistory, historyIndex, isRestoringRef, timers>>
    ]_vars

\* updateNodeData was called on two nodes with the id of neither
C26_Witness ==
  /\ opArgs # <<>>
  /\ opRet.op = "updateNodeData"
  /\ Len(opArgs.nodes) = 2
  /\ opRet.nodeId \notin ArgIds(heap, opArgs.nodes)
  /\ opRet.nodes = opArgs.nodes

\* C38: updateNodeData(nodes, id, content) returns as many nodes as it was
\* given, with the same ids in the same order; a node with another id equals
\* the node passed in, and a node with the id keeps its id, position and type.
C38_UpdateFrame ==
  opRet.op = "updateNodeData" =>
    /\ Len(opRet.nodes) = Len(opArgs.nodes)
    /\ getNodeIds(heap, opRet.nodes) = getNodeIds(heap, opArgs.nodes)
    /\ \A i \in DOMAIN opArgs.nodes :
         LET old == NodeValue(heap, opArgs.nodes[i])
             new == NodeValue(heap, opRet.nodes[i])
         IN IF old.id # opRet.nodeId
            THEN new = old
            ELSE /\ new.id = old.id
                 /\ new.position = old.position
                 /\ new.type = old.type

\* the first of two nodes with different ids was updated: its content is
\* new, and the second node is the one passed in
C38_Witness ==
  /\ opRet.op = "updateNodeData"
  /\ Len(opArgs.nodes) = 2
  /\ heap[opArgs.nodes[1]].id = opRet.nodeId
  /\ heap[opArgs.nodes[2]].id # opRet.nodeId
  /\ NodeValue(heap, opRet.nodes[1]).data # NodeValue(heap, opArgs.nodes[1]).data
  /\ opRet.nodes[2] = opArgs.nodes[2]

\* C37: no node object of an array returned by addNode, removeNode or
\* updateNodeData, nor its data or position object, and no edge object of an
\* array returned by removeNodeEdges, is an object of the arrays passed in.
C37_ResultNotShared ==
  /\ opRet.op \in {"addNode", "removeNode", "updateNodeData"} =>
       ArgObjects(heap, [nodes |-> opRet.nodes, edges |-> <<>>])
         \cap ArgObjects(heap, opArgs) = {}
  /\ opRet.op = "removeNodeEdges" =>
       Range(opRet.edges) \cap Range(opArgs.edges) = {}

\* C31: a manager constructed with maxSteps <= 0 always holds exactly one
\* entry at index 0, undo() and redo() return null, and the entry equals the
\* state captured last: a capture replaces it by the captured state, undo and
\* redo leave it alone.
C31_NoHistoryKept ==
  /\ [](maxSteps <= 0 =>
          /\ length(history) = 1
          /\ getCurrentIndex(currentIndex) = 0
          /\ undo(history, currentIndex, heap).ret = Null
          /\ redo(history, currentIndex, heap).ret = Null
          /\ (lastOp \in {"undo", "redo"} => ret = Null)
          /\ (lastOp = "constructor" => Value(heap, history[1]) = Value(heap, live)))
  /\ [][maxSteps <= 0 =>
          /\ lastOp' = "capture" => Value(heap', history'[1]) = Value(heap, live)
          /\ lastOp' \in {"undo", "redo"} =>
               Value(heap', history'[1]) = Value(heap, history[1])
       ]_vars

\* a manager with a negative maxSteps has captured a graph of two nodes and
\* holds it as its only entry
C31_Witness ==
  /\ maxSteps < 0
  /\ lastOp = "capture"
  /\ Len(history) = 1
  /\ Len(heap[history[1]].nodes) = 2
  /\ Value(heap, history[1]) = Value(heap, live)

\* C36: in every live graph of the hooks, from the initial sample graph on
\* and after any sequence of createNode, duplicateNode, updateNodeData,
\* deleteNode, undo and redo, the label of each node is its title when its
\* description is empty and its title followed by "(...)" when it is not.
C36_LabelDerived ==
  \A i \in DOMAIN nodes :
    nodes[i].data.label = LabelOf(nodes[i].data.title, nodes[i].data.description)

\* C33: a capture request that is pending when undo or redo is called (the
\* flag is set and its graph change has not been rendered) is not fulfilled
\* by the render of the undo/redo, and not by a later render of content
\* updates alone either: with no captureSnapshot call since, that render
\* leaves the history and the index as they are, so the redo entries stay.
RequestsCapture == Structural \cup {"captureSnapshot"}
PendingAtRestore(b) ==
  /\ Len(b) > 1
  /\ b[Len(b)] \in {"undo", "redo"}
  /\ \E i \in 1..(Len(b) - 1) : b[i] \in RequestsCapture
C33_PendingRequestDropped ==
  [][/\ (RenderStep /\ PendingAtRestore(batch) /\ isRestoringRef) =>
          (captured' = 0 /\ hookHistory' = hookHistory)
     /\ (RenderStep /\ PendingAtRestore(lastBatch) /\ shouldCaptureRef
           /\ Only(batch, {"updateNodeData"})) =>
          (hookHistory' = hookHistory /\ historyIndex' = historyIndex)]_vars

\* C32: useHistory and a HistoryManager with the same maxSteps >= 0 that
\* were given the same sequence of captures (a request and its change,
\* rendered), undos and redos agree, once every render and timer callback
\* has run, on the history length, the index, canUndo and canRedo.
C32_FaithfulWrapper ==
  (history # <<>> /\ queue = <<>> /\ timers = 0) =>
    /\ Len(hookHistory) = length(history)
    /\ historyIndex = getCurrentIndex(currentIndex)
    /\ hookCanUndo(historyIndex) = canUndo(currentIndex)
    /\ hookCanRedo(historyIndex, hookHistory) = canRedo(history, currentIndex)

\* C35: with a node selected and no further user input, App's content-sync
\* effect and the node state of the graph model come to rest: a render is
\* reached after which no node update is requested.
C35_SyncTerminates == (selectedNode # NoSelection) ~> (queue = <<>>)

\* C34: when a render of App has processed an undo or a redo (the index has
\* moved) and the updates that the effects of that render requested are
\* applied, the live nodes and edges are those of the history entry at the
\* new index, whether or not a node is selected in the editing panel.
RestoreRendered ==
  /\ graph' # graph
  /\ historyIndex' # historyIndex
  /\ batch # <<>>
  /\ batch[Len(batch)] \in {"undo", "redo"}
  /\ \A i \in 1..(Len(batch) - 1) : batch[i] = "updateNodeData"
C34_RestoredIsLive ==
  [][RestoreRendered =>
       LET after == applyQueue(nodes', edges', historyIndex', queue')
       IN /\ after.nodes = hookHistory'[historyIndex' + 1].nodes
          /\ after.edges = hookHistory'[historyIndex' + 1].edges]_vars

====
